---- MODULE Spec2Model ----
(***************************************************************************)
(* Model of the snake-game backend: the in-memory store MockDatabase       *)
(* (backend/app/database.py) and the handlers that call it                 *)
(* (backend/app/routers).  Spec drives the store through accounts, scores  *)
(* and the leaderboard; SpecUsers drives its user side with any username   *)
(* and email; SpecLookup adds lookups by score id; SpecIds creates several *)
(* users and scores; SpecClock lets the clock advance between scores, and  *)
(* is the only specification in which it does.  SpecHttp runs concurrent   *)
(* signup requests, SpecLogin signups and logins, SpecApi score            *)
(* submissions by registered users, SpecPlayers the players endpoint.      *)
(* SpecParity runs the relational backend (schema in db_models.py) side by *)
(* side with the in-memory one; SpecOrders runs two create_score calls in  *)
(* both orders from one state; SpecSessions follows the sessions of get_db *)
(* (db_config.py); SpecWait is one run of wait_for_db (wait-for-db.py).    *)
(*                                                                         *)
(* A Python dict is a function whose DOMAIN is its key set; dicts keep     *)
(* insertion order, and ids only grow, so the order of scores.values() is  *)
(* ascending id.  An Optional value is <<>> (None / key absent) or <<v>>.  *)
(***************************************************************************)
EXTENDS Integers, Sequences, FiniteSets, TLC

\* ---------------------------------------------------------------- bounds
MaxUsers == 1        \* create_user calls explored along with scores (Spec)
MaxScoreCalls == 2   \* create_score calls explored (failed ones included)
MaxLimit == 2        \* limit arguments are None, 0..MaxLimit
MaxUserCalls == 2    \* create_user calls explored on their own (SpecUsers)
NumRequests == 2     \* concurrent HTTP requests in flight
MaxClock == 1        \* readings of the clock after the first
MaxPlayerScores == 4 \* create_score calls ahead of the players endpoint
NumWorkers == 2      \* workers running operations that take a session
MaxSessions == 3     \* sessions made by SessionLocal()
MaxEarlierScores == 1 \* scores stored before two calls are tried in both orders
MaxRetries == 10     \* max_retries arguments are 0..MaxRetries

\* ---------------------------------------------------------------- inputs
Usernames == {"ann", "bob"}
Emails == {"ann@x.io", "bob@x.io"}
Passwords == {<<"s", "e", "c", "r", "e", "t">>}
\* passwords within SignupRequest's 6..100 characters: a short one and two
\* of 71 characters that differ in the last one only
LongPrefix == [k \in 1..70 |-> "a"]
LoginPasswords ==
    {<<"s", "e", "c", "r", "e", "t">>, LongPrefix \o <<"b">>, LongPrefix \o <<"c">>}
\* ScoreSubmission.score: int, ge=0
ScoreValues == {0, 1}

None == <<>>
Some(x) == <<x>>

\* models.py: class GameMode(str, Enum)
GameMode == {"wall", "pass"}

VARIABLES
    users,              \* self.users: id -> user dict
    users_by_email,     \* self.users_by_email: email -> id
    users_by_username,  \* self.users_by_username: username -> id
    scores,             \* self.scores: id -> score dict
    next_user_id,       \* self.next_user_id
    next_score_id,      \* self.next_score_id
    now,                \* datetime.now() in ms, as last observed
    ret,                \* outcome of the last store call
    requests,           \* HTTP requests: position in the handler and response
    running,            \* request whose coroutine holds the event loop, or 0
    sql,                \* the relational backend: tables, sequences, last outcome
    sessions,           \* sessions made by SessionLocal(): id -> "open" / "closed"
    operations,         \* per worker: where its operation stands, and its session
    trial,              \* two create_score calls tried in both orders
    wait                \* wait_for_db: loop position, attempts made, result

store == <<users, users_by_email, users_by_username, scores,
           next_user_id, next_score_id>>
http == <<requests, running>>
\* what lies outside the in-memory store and the routers on top of it
outside == <<sql, sessions, operations, trial, wait>>
vars == <<users, users_by_email, users_by_username, scores,
          next_user_id, next_score_id, now, ret, requests, running,
          sql, sessions, operations, trial, wait>>

\* ------------------------------------------------------------ dict helpers
\* d[k] = v
DictSet(d, k, v) == [x \in (DOMAIN d) \cup {k} |-> IF x = k THEN v ELSE d[x]]

\* d.get(k)
DictGet(d, k) == IF k \in DOMAIN d THEN Some(d[k]) ELSE None

Min(a, b) == IF a <= b THEN a ELSE b

RECURSIVE Ascending(_)
\* the elements of a finite set of integers, smallest first
Ascending(S) ==
    IF S = {} THEN <<>>
    ELSE LET m == CHOOSE x \in S : \A y \in S : x <= y
         IN <<m>> \o Ascending(S \ {m})

\* list(d.values()) as references (keys), in insertion order
values(d) == Ascending(DOMAIN d)

\* -------------------------------------------------------------- passwords
\* hash_password: input beyond 70 bytes is cut off before hashing; the hash
\* itself is opaque and stands for the secret it was made from.
hash_password(password) ==
    [scheme |-> "bcrypt",
     secret |-> IF Len(password) > 70 THEN SubSeq(password, 1, 70) ELSE password]

\* verify_password: the plain password is cut off at 70 bytes the same way,
\* then checked against the hash
verify_password(plain_password, hashed_password) ==
    hashed_password.secret =
        IF Len(plain_password) > 70 THEN SubSeq(plain_password, 1, 70)
        ELSE plain_password

\* ---------------------------------------------------------- MockDatabase
\* MockDatabase.__init__(initialize_test_data=False)
StoreInit ==
    /\ users = <<>>
    /\ users_by_email = <<>>
    /\ users_by_username = <<>>
    /\ scores = <<>>
    /\ next_user_id = 1
    /\ next_score_id = 1

get_user_by_id(user_id) == DictGet(users, user_id)

get_user_by_email(email) ==
    LET user_id == DictGet(users_by_email, email)
    IN IF user_id # None /\ user_id[1] # 0 THEN DictGet(users, user_id[1]) ELSE None

get_user_by_username(username) ==
    LET user_id == DictGet(users_by_username, username)
    IN IF user_id # None /\ user_id[1] # 0 THEN DictGet(users, user_id[1]) ELSE None

email_exists(email) == email \in DOMAIN users_by_email

username_exists(username) == username \in DOMAIN users_by_username

\* mutant: the id counter is left where it was
db_create_user_same_id(username, email, password) ==
    LET user_id == next_user_id
        user == [id |-> user_id, username |-> username, email |-> email,
                 password_hash |-> hash_password(password)]
    IN /\ next_user_id' = next_user_id
       /\ users' = DictSet(users, user_id, user)
       /\ users_by_email' = DictSet(users_by_email, email, user_id)
       /\ users_by_username' = DictSet(users_by_username, username, user_id)
       /\ UNCHANGED <<scores, next_score_id>>

\* the store update of create_user; the id it returns is next_user_id
db_create_user(username, email, password) ==
    LET user_id == next_user_id
        user == [id |-> user_id, username |-> username, email |-> email,
                 password_hash |-> hash_password(password)]
    IN /\ next_user_id' = next_user_id + 1
       /\ users' = DictSet(users, user_id, user)
       /\ users_by_email' = DictSet(users_by_email, email, user_id)
       /\ users_by_username' = DictSet(users_by_username, username, user_id)
       /\ UNCHANGED <<scores, next_score_id>>

\* mutant: the submitted mode is dropped for a fixed one
score_entry_fixed_mode(score_id, user_id, username, score, mode, timestamp) ==
    [id |-> score_id, userId |-> user_id, username |-> username,
     score |-> score, mode |-> "wall", timestamp |-> timestamp, rank |-> None]

\* the score dict built by create_score; it has no "rank" key
score_entry(score_id, user_id, username, score, mode, timestamp) ==
    [id |-> score_id, userId |-> user_id, username |-> username,
     score |-> score, mode |-> mode, timestamp |-> timestamp, rank |-> None]

\* `if not user` in create_score
user_missing(user_id) == get_user_by_id(user_id) = None

\* ---- get_scores ----
\* `if mode:` / `if limit:` (truthiness of an Optional str enum / int)
mode_given(mode) == mode # None
limit_given(limit) == limit # None /\ limit[1] # 0

\* mutant: the mode filter is not applied
filter_mode_ignored(refs, mode) == refs

\* [s for s in scores if s["mode"] == mode.value]
filter_mode(refs, mode) ==
    IF mode_given(mode)
    THEN SelectSeq(refs, LAMBDA i : scores[i].mode = mode[1])
    ELSE refs

\* mutant: reverse=True left out, the sort is ascending
goes_before_ascending(a, b) == scores[a].score <= scores[b].score

\* mutant: an equal score inserted later is put ahead (sort, then reverse)
goes_before_strict(a, b) == scores[a].score > scores[b].score

\* sort key order of scores.sort(key=score, reverse=True): a goes before b
goes_before(a, b) == scores[a].score >= scores[b].score

RECURSIVE sort_scores(_)
\* list.sort is stable, also with reverse=True: each element is placed after
\* every earlier element that does not have to follow it
sort_scores(refs) ==
    IF refs = <<>> THEN <<>>
    ELSE LET n == Len(refs)
             front == sort_scores(SubSeq(refs, 1, n - 1))
             x == refs[n]
             k == Cardinality({i \in 1..Len(front) : goes_before(front[i], x)})
         IN SubSeq(front, 1, k) \o <<x>> \o SubSeq(front, k + 1, Len(front))

\* mutant: the sort is left out
sorted_refs_unsorted(mode) == filter_mode(values(scores), mode)

\* the filtered, sorted list of references, before the limit
sorted_refs(mode) == sort_scores(filter_mode(values(scores), mode))

\* position of a reference in a list without repetitions
IndexOf(refs, i) == CHOOSE k \in 1..Len(refs) : refs[k] = i

\* mutant: enumerate without start=1, ranks count from 0
rank_of_zero_based(refs, i) == IndexOf(refs, i) - 1

\* for index, score in enumerate(scores, start=1): score["rank"] = index
rank_of(refs, i) == IndexOf(refs, i)

\* self.scores after the rank loop: the list holds the stored dicts themselves
ranked_store(mode) ==
    LET refs == sorted_refs(mode)
    IN [i \in DOMAIN scores |->
          IF \E k \in 1..Len(refs) : refs[k] = i
          THEN [scores[i] EXCEPT !.rank = Some(rank_of(refs, i))]
          ELSE scores[i]]

\* mutant: the slice stops one short
apply_limit_short(refs, limit) ==
    IF limit_given(limit) THEN SubSeq(refs, 1, Min(limit[1], Len(refs)) - 1) ELSE refs

\* scores[:limit]
apply_limit(refs, limit) ==
    IF limit_given(limit) THEN SubSeq(refs, 1, Min(limit[1], Len(refs))) ELSE refs

\* the list get_scores returns, as references into self.scores
get_scores_refs(limit, mode) == apply_limit(sorted_refs(mode), limit)

\* ------------------------------------------------------------- store calls
Ret(op, args, raised, value) ==
    [op |-> op, args |-> args, raised |-> raised, value |-> value]

\* MockDatabase.create_user
create_user(username, email, password) ==
    /\ db_create_user(username, email, password)
    /\ ret' = Ret("create_user", <<username, email>>, None,
                  Some(next_user_id))
    /\ UNCHANGED <<now, outside, http>>

\* mutant: the record is stored before the user is looked up
db_create_score_unchecked(user_id, score, mode, timestamp) ==
    /\ next_score_id' = next_score_id + 1
    /\ scores' = DictSet(scores, next_score_id,
                  score_entry(next_score_id, user_id,
                      IF user_id \in DOMAIN users THEN users[user_id].username ELSE "",
                      score, mode,
                      IF timestamp = None THEN now ELSE timestamp[1]))
    /\ UNCHANGED <<users, users_by_email, users_by_username, next_user_id>>

\* mutant: the entry is stored under the user id instead of the score id
db_create_score_keyed_by_user(user_id, score, mode, timestamp) ==
    /\ next_score_id' = next_score_id + 1
    /\ scores' =
         IF user_missing(user_id) THEN scores
         ELSE DictSet(scores, user_id,
                  score_entry(next_score_id, user_id, users[user_id].username,
                      score, mode,
                      IF timestamp = None THEN now ELSE timestamp[1]))
    /\ UNCHANGED <<users, users_by_email, users_by_username, next_user_id>>

\* the store update of create_score and what it raises or returns
db_create_score(user_id, score, mode, timestamp) ==
    /\ next_score_id' = next_score_id + 1
    /\ scores' =
         IF user_missing(user_id) THEN scores
         ELSE DictSet(scores, next_score_id,
                  score_entry(next_score_id, user_id, users[user_id].username,
                      score, mode,
                      IF timestamp = None THEN now ELSE timestamp[1]))
    /\ UNCHANGED <<users, users_by_email, users_by_username, next_user_id>>

create_score_raises(user_id) ==
    IF user_missing(user_id) THEN Some("ValueError") ELSE None

\* MockDatabase.create_score
create_score(user_id, score, mode, timestamp) ==
    /\ db_create_score(user_id, score, mode, timestamp)
    /\ ret' = Ret("create_score", <<user_id, score, mode>>,
                  create_score_raises(user_id),
                  IF user_missing(user_id) THEN None ELSE Some(next_score_id))
    /\ UNCHANGED <<now, outside, http>>

\* MockDatabase.get_scores
get_scores(limit, mode) ==
    /\ scores' = ranked_store(mode)
    /\ ret' = Ret("get_scores", <<limit, mode>>, None,
                  Some(get_scores_refs(limit, mode)))
    /\ UNCHANGED <<users, users_by_email, users_by_username, next_user_id,
                   next_score_id, now, outside, http>>

\* MockDatabase.get_user_by_email, a read
call_get_user_by_email(email) ==
    /\ ret' = Ret("get_user_by_email", <<email>>, None, get_user_by_email(email))
    /\ UNCHANGED <<store, now, outside, http>>

\* MockDatabase.get_user_by_username, a read
call_get_user_by_username(username) ==
    /\ ret' = Ret("get_user_by_username", <<username>>, None,
                  get_user_by_username(username))
    /\ UNCHANGED <<store, now, outside, http>>

\* MockDatabase.email_exists, a read
call_email_exists(email) ==
    /\ ret' = Ret("email_exists", <<email>>, None, Some(email_exists(email)))
    /\ UNCHANGED <<store, now, outside, http>>

\* MockDatabase.username_exists, a read
call_username_exists(username) ==
    /\ ret' = Ret("username_exists", <<username>>, None,
                  Some(username_exists(username)))
    /\ UNCHANGED <<store, now, outside, http>>

\* the ids of the scores of one user, in the order the dict holds them
get_user_scores(user_id) ==
    LET RECURSIVE pick(_)
        pick(ids) ==
            IF ids = <<>> THEN <<>>
            ELSE IF scores[Head(ids)].userId = user_id
                 THEN <<Head(ids)>> \o pick(Tail(ids))
                 ELSE pick(Tail(ids))
    IN pick(values(scores))

\* MockDatabase.get_user_scores, a read
call_get_user_scores(user_id) ==
    /\ ret' = Ret("get_user_scores", <<user_id>>, None,
                  Some(get_user_scores(user_id)))
    /\ UNCHANGED <<store, now, outside, http>>

\* the clock that create_score reads moves on
Tick ==
    /\ now < MaxClock
    /\ now' = now + 1
    /\ UNCHANGED <<store, ret, http, outside>>

\* getScoreById of the Score Store contract: the entry with the owning user's
\* username joined in, or not-found
get_score_by_id(score_id) ==
    IF score_id \in DOMAIN scores
    THEN LET s == scores[score_id]
         IN Some([id |-> s.id, userId |-> s.userId,
                  username |-> users[s.userId].username,
                  score |-> s.score, mode |-> s.mode, timestamp |-> s.timestamp])
    ELSE None

\* getScoreById, a read
call_get_score_by_id(score_id) ==
    /\ ret' = Ret("get_score_by_id", <<score_id>>, None, get_score_by_id(score_id))
    /\ UNCHANGED <<store, now, outside, http>>

\* ------------------------------------------------------ HTTP: auth router
\* A request slot: where its handler coroutine stands, the validated body,
\* and the response once sent.
Idle == [pc |-> "idle", body |-> None, response |-> None]

\* HTTPException(status_code, detail)
HTTPException(status_code, detail) ==
    [status_code |-> status_code, detail |-> detail, user |-> None, token |-> None]

\* AuthResponse(success=True, user=User(...), token=create_access_token(sub))
AuthResponse(status_code, user) ==
    [status_code |-> status_code, detail |-> "",
     user |-> Some([id |-> user.id, username |-> user.username, email |-> user.email]),
     token |-> Some([sub |-> user.id])]

\* mutant: the handler awaits between its checks and the insert
signup_awaits_before_insert(pc) == pc = "create_user"

\* The handlers are `async def` coroutines on one event loop: a coroutine that
\* has started keeps the loop until it awaits or returns.  signup contains no
\* await expression, so it never gives the loop up before it returns.
signup_awaits(pc) == FALSE

\* the loop may run a step of request r
may_run(r) == running \in {0, r}

\* the loop after a step of r that leaves r at pc
loop_after(r, pc) == IF pc = "done" \/ signup_awaits(pc) THEN 0 ELSE r

\* a validated SignupRequest arrives and its handler is scheduled
ReceiveSignup(r, username, email, password) ==
    /\ requests[r].pc = "idle"
    /\ requests' = [requests EXCEPT ![r] =
           [pc |-> "signup", response |-> None,
            body |-> Some([username |-> username, email |-> email,
                           password |-> password])]]
    /\ UNCHANGED <<store, now, outside, ret, running>>

\* mutant: the email check is left out
signup_check_email_skipped(r) ==
    /\ requests[r].pc = "signup"
    /\ running \in {0, r}
    /\ requests' = [requests EXCEPT ![r].pc = "check_username"]
    /\ running' = r
    /\ UNCHANGED <<store, now, outside, ret>>

\* signup: `if db.email_exists(signup_request.email)`
signup_check_email(r) ==
    /\ requests[r].pc = "signup"
    /\ may_run(r)
    /\ LET pc == IF email_exists(requests[r].body[1].email)
                 THEN "done" ELSE "check_username"
       IN /\ requests' = [requests EXCEPT ![r].pc = pc,
                 ![r].response =
                     IF pc = "done"
                     THEN Some(HTTPException(409, "Email already exists"))
                     ELSE None]
          /\ running' = loop_after(r, pc)
    /\ UNCHANGED <<store, now, outside, ret>>

\* signup: `if db.username_exists(signup_request.username)`
signup_check_username(r) ==
    /\ requests[r].pc = "check_username"
    /\ may_run(r)
    /\ LET pc == IF username_exists(requests[r].body[1].username)
                 THEN "done" ELSE "create_user"
       IN /\ requests' = [requests EXCEPT ![r].pc = pc,
                 ![r].response =
                     IF pc = "done"
                     THEN Some(HTTPException(409, "Username already exists"))
                     ELSE None]
          /\ running' = loop_after(r, pc)
    /\ UNCHANGED <<store, now, outside, ret>>

\* signup: db.create_user, db.get_user_by_id, the token and the 201 response
signup_create_user(r) ==
    /\ requests[r].pc = "create_user"
    /\ may_run(r)
    /\ LET body == requests[r].body[1]
       IN db_create_user(body.username, body.email, body.password)
    /\ requests' = [requests EXCEPT ![r].pc = "done",
           ![r].response = Some(AuthResponse(201, users'[next_user_id]))]
    /\ running' = loop_after(r, "done")
    /\ UNCHANGED <<now, outside, ret>>

\* a validated LoginRequest arrives and its handler is scheduled
ReceiveLogin(r, email, password) ==
    /\ requests[r].pc = "idle"
    /\ requests' = [requests EXCEPT ![r] =
           [pc |-> "login", response |-> None,
            body |-> Some([email |-> email, password |-> password])]]
    /\ UNCHANGED <<store, now, outside, ret, running>>

\* mutant: an unregistered email gets a message of its own
login_response_telling(email, password) ==
    LET user == get_user_by_email(email)
    IN IF user = None
       THEN HTTPException(401, "No account with this email")
       ELSE IF ~verify_password(password, user[1].password_hash)
       THEN HTTPException(401, "Invalid email or password")
       ELSE AuthResponse(200, user[1])

\* what login answers: the two HTTPExceptions it raises, or the AuthResponse
login_response(email, password) ==
    LET user == get_user_by_email(email)
    IN IF user = None
       THEN HTTPException(401, "Invalid email or password")
       ELSE IF ~verify_password(password, user[1].password_hash)
       THEN HTTPException(401, "Invalid email or password")
       ELSE AuthResponse(200, user[1])

\* the login handler; it has no await
login(r) ==
    /\ requests[r].pc = "login"
    /\ may_run(r)
    /\ LET body == requests[r].body[1]
       IN requests' = [requests EXCEPT ![r].pc = "done",
              ![r].response = Some(login_response(body.email, body.password))]
    /\ running' = loop_after(r, "done")
    /\ UNCHANGED <<store, now, outside, ret>>

\* ----------------------------------------------- HTTP: leaderboard router
\* request bodies of POST /scores as sent, before validation
Submissions ==
    {[score |-> -1, mode |-> "wall"], [score |-> 0, mode |-> "bogus"],
     [score |-> -1, mode |-> "bogus"],
     [score |-> 0, mode |-> "wall"], [score |-> 1, mode |-> "pass"]}

\* create_access_token(data={"sub": str(user["id"])})
create_access_token(user_id) == [sub |-> user_id]

\* get_current_user_id: the id in the bearer token; without credentials the
\* bearer scheme refuses the request
get_current_user_id(token) ==
    IF token = None THEN None ELSE Some(token[1].sub)

\* mutant: score is not constrained
ScoreSubmission_unconstrained(score, mode) == mode \in GameMode

\* ScoreSubmission: score: int = Field(..., ge=0), mode: GameMode
ScoreSubmission(score, mode) == score >= 0 /\ mode \in GameMode

\* mutant: without credentials the request runs as the first user
submit_score_depends_optional(token) ==
    IF token = None THEN Some(1) ELSE get_current_user_id(token)

\* submit_score: user_id: int = Depends(get_current_user_id)
submit_score_depends(token) == get_current_user_id(token)

\* the response to a request that did not get through
ErrorResponse(status_code, detail) ==
    [status_code |-> status_code, detail |-> detail, score |-> None]

\* mutant: the score id is put where the user id belongs
submit_score_response_ids_mixed(score_id, user_id, score, mode, timestamp) ==
    [status_code |-> 201, detail |-> "",
     score |-> Some([id |-> score_id, userId |-> score_id,
                     username |-> users[user_id].username,
                     score |-> score, mode |-> mode, timestamp |-> timestamp])]

\* submit_score: ScoreResponse(success=True, score=Score(...)), status 201
submit_score_response(score_id, user_id, score, mode, timestamp) ==
    [status_code |-> 201, detail |-> "",
     score |-> Some([id |-> score_id, userId |-> user_id,
                     username |-> users[user_id].username,
                     score |-> score, mode |-> mode, timestamp |-> timestamp])]

\* a POST /scores request arrives on connection r
ReceiveSubmitScore(r, token, submission) ==
    /\ requests[r].pc \in {"idle", "done"}
    /\ requests' = [requests EXCEPT ![r] =
           [pc |-> "submit_score", response |-> None,
            body |-> Some([token |-> token, score |-> submission.score,
                           mode |-> submission.mode])]]
    /\ UNCHANGED <<store, now, outside, ret, running>>

\* The route of POST /scores: the dependency get_current_user_id is resolved
\* first, then the body is validated, then the handler runs; the handler has
\* no await and an exception it does not catch becomes a 500.
submit_score_route(r) ==
    /\ requests[r].pc = "submit_score"
    /\ may_run(r)
    /\ LET req == requests[r].body[1]
           user_id == submit_score_depends(req.token)
       IN IF user_id = None
          THEN /\ requests' = [requests EXCEPT ![r].pc = "done",
                      ![r].response = Some(ErrorResponse(403, "Not authenticated"))]
               /\ UNCHANGED store
          ELSE IF ~ScoreSubmission(req.score, req.mode)
          THEN /\ requests' = [requests EXCEPT ![r].pc = "done",
                      ![r].response = Some(ErrorResponse(422, "validation"))]
               /\ UNCHANGED store
          ELSE /\ db_create_score(user_id[1], req.score, req.mode, None)
               /\ requests' = [requests EXCEPT ![r].pc = "done",
                      ![r].response =
                          IF user_missing(user_id[1])
                          THEN Some(ErrorResponse(500, "Internal Server Error"))
                          ELSE Some(submit_score_response(next_score_id,
                                        user_id[1], req.score, req.mode,
                                        scores'[next_score_id].timestamp))]
    /\ running' = loop_after(r, "done")
    /\ UNCHANGED <<now, outside, ret>>

\* -------------------------------------------------- HTTP: players router
\* get_active_players: db.get_scores(limit=3)
ActivePlayersLimit == 3

\* ActivePlayer(id=score["userId"], username=..., score=..., mode=...)
ActivePlayer(score) ==
    [id |-> score.userId, username |-> score.username, score |-> score.score,
     mode |-> score.mode]

\* mutant: the scores are read without a limit
active_players_unlimited ==
    LET recent_scores == get_scores_refs(None, None)
    IN [k \in 1..Len(recent_scores) |-> ActivePlayer(scores[recent_scores[k]])]

\* the players list built from recent_scores
active_players ==
    LET recent_scores == get_scores_refs(Some(ActivePlayersLimit), None)
    IN [k \in 1..Len(recent_scores) |-> ActivePlayer(scores[recent_scores[k]])]

\* GET /active; the handler has no await, and its get_scores call ranks the
\* stored scores on the way
get_active_players ==
    /\ scores' = ranked_store(None)
    /\ ret' = Ret("get_active_players", <<>>, None, Some(active_players))
    /\ UNCHANGED <<users, users_by_email, users_by_username, next_user_id,
                   next_score_id, now, outside, http>>

\* --------------------------------------------------- relational backend
\* the tables users and scores of db_models.py, empty, with their id
\* sequences and the outcome of the last operation
SqlInit ==
    [users |-> <<>>, scores |-> <<>>, next_user_id |-> 1, next_score_id |-> 1,
     ret |-> [raised |-> FALSE, value |-> None]]

\* users.username and users.email are unique=True
sql_unique_violation(username, email) ==
    \E i \in DOMAIN sql.users :
        sql.users[i].username = username \/ sql.users[i].email = email

\* scores.user_id is ForeignKey("users.id")
sql_foreign_key_violation(user_id) == user_id \notin DOMAIN sql.users

\* createUser: an insert into users.  A refused insert has used up an id when
\* ids come from a sequence and has not when they are max(id)+1, so
\* `consumed` is either.
sql_create_user(username, email, password, consumed) ==
    IF sql_unique_violation(username, email)
    THEN [sql EXCEPT !.ret = [raised |-> TRUE, value |-> None],
                     !.next_user_id = IF consumed THEN @ + 1 ELSE @]
    ELSE [sql EXCEPT
             !.users = DictSet(@, sql.next_user_id,
                 [id |-> sql.next_user_id, username |-> username, email |-> email,
                  password_hash |-> hash_password(password)]),
             !.next_user_id = @ + 1,
             !.ret = [raised |-> FALSE, value |-> Some(sql.next_user_id)]]

\* createScore: an insert into scores
sql_create_score(user_id, score, mode, timestamp, consumed) ==
    IF sql_foreign_key_violation(user_id)
    THEN [sql EXCEPT !.ret = [raised |-> TRUE, value |-> None],
                     !.next_score_id = IF consumed THEN @ + 1 ELSE @]
    ELSE [sql EXCEPT
             !.scores = DictSet(@, sql.next_score_id,
                 [id |-> sql.next_score_id, user_id |-> user_id, score |-> score,
                  mode |-> mode, timestamp |-> timestamp]),
             !.next_score_id = @ + 1,
             !.ret = [raised |-> FALSE, value |-> Some(sql.next_score_id)]]

\* the rows a getScores(mode) query selects
sql_matching(mode) ==
    {i \in DOMAIN sql.scores : mode = None \/ sql.scores[i].mode = mode[1]}

\* ORDER BY score DESC: every order of the selected rows with no lower score
\* ahead of a higher one; rows of equal score come in any order
sql_order_by_score_desc(mode) ==
    LET rows == sql_matching(mode)
        n == Cardinality(rows)
    IN {o \in [1..n -> rows] :
           /\ \A j, k \in 1..n : j # k => o[j] # o[k]
           /\ \A j, k \in 1..n :
                  j < k => sql.scores[o[j]].score >= sql.scores[o[k]].score}

\* getScores: the ranked entries in the order `order`, username joined in,
\* cut to the first `limit` entries if a limit is given
sql_get_scores(limit, order) ==
    LET n == IF limit = None THEN Len(order) ELSE Min(limit[1], Len(order))
        entries == [k \in 1..n |->
            LET s == sql.scores[order[k]]
            IN <<s.id, s.user_id, sql.users[s.user_id].username, s.score,
                 s.mode, s.timestamp, k>>]
    IN [sql EXCEPT !.ret = [raised |-> FALSE, value |-> Some(entries)]]

\* the same createUser call made on both backends
parity_create_user(username, email, password, consumed) ==
    /\ db_create_user(username, email, password)
    /\ ret' = Ret("create_user", <<username, email>>, None, Some(next_user_id))
    /\ sql' = sql_create_user(username, email, password, consumed)
    /\ UNCHANGED <<now, http, sessions, operations,
                   trial, wait>>

\* the same createScore call made on both backends
parity_create_score(user_id, score, mode, consumed) ==
    /\ db_create_score(user_id, score, mode, None)
    /\ ret' = Ret("create_score", <<user_id, score, mode>>,
                  create_score_raises(user_id),
                  IF user_missing(user_id) THEN None ELSE Some(next_score_id))
    /\ sql' = sql_create_score(user_id, score, mode, now, consumed)
    /\ UNCHANGED <<now, http, sessions, operations,
                   trial, wait>>

\* the same getScores call made on both backends
parity_get_scores(limit, mode, order) ==
    /\ scores' = ranked_store(mode)
    /\ ret' = Ret("get_scores", <<limit, mode>>, None,
                  Some(get_scores_refs(limit, mode)))
    /\ sql' = sql_get_scores(limit, order)
    /\ UNCHANGED <<users, users_by_email, users_by_username, next_user_id,
                   next_score_id, now, http, sessions, operations,
                   trial, wait>>

\* ------------------------------------------------------------ db_config
\* An operation that depends on get_db: its consumer drives the generator to
\* the yield, uses the session, and resumes the generator when it is done,
\* by next() if it ended normally and by throw() if it raised.
\* get_db up to the yield: db = SessionLocal(); try: yield db
get_db_enter(w) ==
    /\ operations[w].pc \in {"idle", "returned", "raised"}
    /\ LET db == Len(sessions) + 1
       IN /\ sessions' = Append(sessions, "open")
          /\ operations' = [operations EXCEPT ![w] = [pc |-> "using", db |-> db]]
    /\ UNCHANGED <<store, now, ret, http, sql, trial, wait>>

\* the consumer is done with the session: it ends normally or it raises
consumer_ends(w, raises) ==
    /\ operations[w].pc = "using"
    /\ operations' = [operations EXCEPT
           ![w].pc = IF raises THEN "ended_raising" ELSE "ended"]
    /\ UNCHANGED <<store, now, ret, http, sql, sessions, trial, wait>>

\* mutant: db.close() follows the yield without try/finally
get_db_closes_unless_raised(raised) == ~raised

\* finally: db.close() runs however the consumer left the yield
get_db_closes(raised) == TRUE

\* get_db resumed at the yield; then the operation returns or raises
get_db_exit(w) ==
    /\ operations[w].pc \in {"ended", "ended_raising"}
    /\ LET raised == operations[w].pc = "ended_raising"
       IN /\ sessions' = IF get_db_closes(raised)
                         THEN [sessions EXCEPT ![operations[w].db] = "closed"]
                         ELSE sessions
          /\ operations' = [operations EXCEPT
                 ![w].pc = IF raised THEN "raised" ELSE "returned"]
    /\ UNCHANGED <<store, now, ret, http, sql, trial, wait>>

\* ------------------------------------------------------------ wait-for-db
\* wait_for_db has not been called
NotStarted == [pc |-> "idle", max_retries |-> 0, i |-> 0, attempts |-> <<>>,
               result |-> None]

\* wait_for_db(..., max_retries): the call enters `for i in range(max_retries)`
wait_for_db(max_retries) ==
    /\ wait.pc = "idle"
    /\ wait' = [wait EXCEPT !.pc = "loop", !.max_retries = max_retries]
    /\ UNCHANGED <<store, now, ret, http, sql, sessions, operations, trial>>

\* mutant: a successful attempt does not return, the loop goes on
wait_for_db_attempt_goes_on(connected) ==
    /\ wait.pc = "loop"
    /\ wait.i < wait.max_retries
    /\ wait' = [wait EXCEPT !.attempts = Append(@, connected), !.i = @ + 1,
                            !.result = IF connected THEN Some(TRUE) ELSE @]
    /\ UNCHANGED <<store, now, ret, http, sql, sessions, operations, trial>>

\* one pass of the loop body: psycopg2.connect succeeds, and the function
\* returns True, or raises OperationalError, and the function sleeps and
\* goes to the next i
wait_for_db_attempt(connected) ==
    /\ wait.pc = "loop"
    /\ wait.i < wait.max_retries
    /\ wait' = IF connected
               THEN [wait EXCEPT !.attempts = Append(@, TRUE), !.pc = "done",
                                 !.result = Some(TRUE)]
               ELSE [wait EXCEPT !.attempts = Append(@, FALSE), !.i = @ + 1]
    /\ UNCHANGED <<store, now, ret, http, sql, sessions, operations, trial>>

\* range(max_retries) is used up: return False
wait_for_db_gives_up ==
    /\ wait.pc = "loop"
    /\ wait.i >= wait.max_retries
    /\ wait' = [wait EXCEPT !.pc = "done", !.result = Some(FALSE)]
    /\ UNCHANGED <<store, now, ret, http, sql, sessions, operations, trial>>

\* --------------------------------------------------- calls in both orders
\* no pair of calls is being tried
NoTrial == [phase |-> "none"]

\* what a pair of calls has left behind: the records added since the starting
\* state, without their ids, and what get_scores returns for every limit and
\* mode as (userId, score, mode, rank)
trial_outcome ==
    [records |->
         {<<scores[i].userId, scores[i].username, scores[i].score, scores[i].mode>> :
              i \in DOMAIN scores \ DOMAIN trial.base.scores},
     added |-> Cardinality(DOMAIN scores \ DOMAIN trial.base.scores),
     board |->
         [l \in {None} \cup {Some(k) : k \in 0..MaxLimit},
          m \in {None} \cup {Some(g) : g \in GameMode} |->
              LET refs == get_scores_refs(l, m)
                  full == sorted_refs(m)
              IN [k \in 1..Len(refs) |->
                     <<scores[refs[k]].userId, scores[refs[k]].score,
                       scores[refs[k]].mode, rank_of(full, refs[k])>>]]]

\* two create_score calls a and b for different users are picked; the state
\* they start from is kept
trial_start(a, b) ==
    /\ trial.phase = "none"
    /\ a.user_id # b.user_id
    /\ trial' = [phase |-> "first", done |-> 0, calls |-> <<a, b>>,
                 base |-> [scores |-> scores, next_score_id |-> next_score_id],
                 first |-> None]
    /\ UNCHANGED <<store, now, ret, http, sql, sessions, operations, wait>>

\* the next create_score call of the order under way: a then b in the first
\* order, b then a in the second
trial_create_score ==
    /\ trial.phase \in {"first", "second"}
    /\ trial.done < 2
    /\ LET k == IF trial.phase = "first" THEN trial.done + 1 ELSE 2 - trial.done
           c == trial.calls[k]
       IN /\ db_create_score(c.user_id, c.score, c.mode, None)
          /\ ret' = Ret("create_score", <<c.user_id, c.score, c.mode>>,
                        create_score_raises(c.user_id),
                        IF user_missing(c.user_id) THEN None ELSE Some(next_score_id))
    /\ trial' = [trial EXCEPT !.done = @ + 1]
    /\ UNCHANGED <<now, http, sql, sessions, operations, wait>>

\* the first order is done: its outcome is kept and the scores are put back
\* to the starting state, from which the second order runs
trial_rewind ==
    /\ trial.phase = "first"
    /\ trial.done = 2
    /\ trial' = [trial EXCEPT !.phase = "second", !.done = 0,
                              !.first = Some(trial_outcome)]
    /\ scores' = trial.base.scores
    /\ next_score_id' = trial.base.next_score_id
    /\ UNCHANGED <<users, users_by_email, users_by_username, next_user_id,
                   now, ret, http, sql, sessions, operations, wait>>

\* ----------------------------------------------------------- specifications
Limits == {None} \cup {Some(k) : k \in 0..MaxLimit}
Modes == {None} \cup {Some(m) : m \in GameMode}
UserIds == 1..(MaxUsers + 1)
ScoreIds == 1..(MaxScoreCalls + 1)
Requests == 1..NumRequests
Workers == 1..NumWorkers
\* the username with its own email address
Accounts == {<<"ann", "ann@x.io">>, <<"bob", "bob@x.io">>}

Init ==
    /\ StoreInit
    /\ now = 0
    /\ ret = Ret("init", <<>>, None, None)
    /\ requests = [r \in Requests |-> Idle]
    /\ running = 0
    /\ sql = SqlInit
    /\ sessions = <<>>
    /\ operations = [w \in Workers |-> [pc |-> "idle", db |-> 0]]
    /\ trial = NoTrial
    /\ wait = NotStarted

CallCreateAccount ==
    \E a \in Accounts, p \in Passwords :
        /\ next_user_id <= MaxUsers
        /\ create_user(a[1], a[2], p)

CallCreateScore ==
    \E i \in UserIds, s \in ScoreValues, m \in GameMode :
        /\ next_score_id <= MaxScoreCalls
        /\ create_score(i, s, m, None)

CallGetScores ==
    \E l \in Limits, m \in Modes : get_scores(l, m)

\* the store driven directly through its methods: accounts, scores, leaderboard
Next == CallCreateAccount \/ CallCreateScore \/ CallGetScores

Spec == Init /\ [][Next]_vars

CallRankAll == get_scores(None, None)

CallGetScoreById == \E i \in ScoreIds : call_get_score_by_id(i)

\* scores written, ranked by a leaderboard read, and looked up by id
NextLookup ==
    CallCreateAccount \/ CallCreateScore \/ CallRankAll \/ CallGetScoreById

SpecLookup == Init /\ [][NextLookup]_vars

CallGetUserScores == \E i \in UserIds : call_get_user_scores(i)

\* scores written at different times and read back per user
NextClock == CallCreateAccount \/ Tick \/ CallCreateScore \/ CallGetUserScores

SpecClock == Init /\ [][NextClock]_vars

StoreUserIds == 1..(MaxUserCalls + 1)

CallCreateAccounts ==
    \E a \in Accounts, p \in Passwords :
        /\ next_user_id <= MaxUserCalls
        /\ create_user(a[1], a[2], p)

CallCreateScoreOfAny ==
    \E i \in StoreUserIds, s \in ScoreValues, m \in GameMode :
        /\ next_score_id <= MaxScoreCalls
        /\ create_score(i, s, m, None)

\* several users and several scores created in any order
NextIds == CallCreateAccounts \/ CallCreateScoreOfAny

SpecIds == Init /\ [][NextIds]_vars

CallCreateUser ==
    \E u \in Usernames, e \in Emails, p \in Passwords :
        /\ next_user_id <= MaxUserCalls
        /\ create_user(u, e, p)

CallGetUserByEmail == \E e \in Emails : call_get_user_by_email(e)

CallGetUserByUsername == \E u \in Usernames : call_get_user_by_username(u)

CallEmailExists == \E e \in Emails : call_email_exists(e)

CallUsernameExists == \E u \in Usernames : call_username_exists(u)

\* the user side of the store driven directly: any username with any email
NextUsers ==
    \/ CallCreateUser
    \/ CallGetUserByEmail
    \/ CallGetUserByUsername
    \/ CallEmailExists
    \/ CallUsernameExists

SpecUsers == Init /\ [][NextUsers]_vars

HttpReceive ==
    \E r \in Requests, u \in Usernames, e \in Emails, p \in Passwords :
        ReceiveSignup(r, u, e, p)

HttpCheckEmail == \E r \in Requests : signup_check_email(r)

HttpCheckUsername == \E r \in Requests : signup_check_username(r)

HttpCreateUser == \E r \in Requests : signup_create_user(r)

\* the store driven by concurrent signup requests
NextHttp ==
    HttpReceive \/ HttpCheckEmail \/ HttpCheckUsername \/ HttpCreateUser

SpecHttp == Init /\ [][NextHttp]_vars

\* the connection a client sends its requests on, one after the other
Connection == CHOOSE r \in Requests : \A q \in Requests : r <= q

\* tokens in the hands of clients: one for each registered user, or none
Tokens == {None} \cup {Some(create_access_token(i)) : i \in DOMAIN users}

HttpReceiveSubmitScore ==
    \E t \in Tokens, b \in Submissions :
        /\ next_score_id <= MaxScoreCalls
        /\ ReceiveSubmitScore(Connection, t, b)

HttpSubmitScore == submit_score_route(Connection)

\* registered users submitting scores over HTTP
NextApi == CallCreateAccounts \/ HttpReceiveSubmitScore \/ HttpSubmitScore

SpecApi == Init /\ [][NextApi]_vars

HttpReceiveSignupOf ==
    \E r \in Requests, a \in Accounts, p \in LoginPasswords :
        ReceiveSignup(r, a[1], a[2], p)

HttpReceiveLogin ==
    \E r \in Requests, e \in Emails, p \in LoginPasswords : ReceiveLogin(r, e, p)

HttpLogin == \E r \in Requests : login(r)

\* users signing up and logging in
NextLogin ==
    \/ HttpReceiveSignupOf
    \/ HttpCheckEmail
    \/ HttpCheckUsername
    \/ HttpCreateUser
    \/ HttpReceiveLogin
    \/ HttpLogin

SpecLogin == Init /\ [][NextLogin]_vars

\* the score and mode of the scores the players endpoint is tried on
PlayerScores == {<<0, "wall">>, <<1, "pass">>}

CallCreatePlayerScore ==
    \E i \in DOMAIN users, s \in PlayerScores :
        /\ next_score_id <= MaxPlayerScores
        /\ create_score(i, s[1], s[2], None)

\* registered users' scores and the players endpoint
NextPlayers == CallCreateAccount \/ CallCreatePlayerScore \/ get_active_players

SpecPlayers == Init /\ [][NextPlayers]_vars

ParityCreateUser ==
    \E a \in Accounts, p \in Passwords, c \in BOOLEAN :
        /\ next_user_id <= MaxUserCalls
        /\ parity_create_user(a[1], a[2], p, c)

ParityCreateScore ==
    \E i \in StoreUserIds, s \in ScoreValues, m \in GameMode, c \in BOOLEAN :
        /\ next_score_id <= MaxScoreCalls
        /\ parity_create_score(i, s, m, c)

ParityGetScores ==
    \E l \in Limits, m \in Modes :
        \E o \in sql_order_by_score_desc(m) : parity_get_scores(l, m, o)

\* the two backends taking the same calls side by side
NextParity == ParityCreateUser \/ ParityCreateScore \/ ParityGetScores

SpecParity == Init /\ [][NextParity]_vars

GetDbEnter ==
    \E w \in Workers :
        /\ Len(sessions) < MaxSessions
        /\ get_db_enter(w)

ConsumerEnds == \E w \in Workers, raises \in BOOLEAN : consumer_ends(w, raises)

GetDbExit == \E w \in Workers : get_db_exit(w)

\* workers running one operation after the other, each on its own session
NextSessions == GetDbEnter \/ ConsumerEnds \/ GetDbExit

SpecSessions == Init /\ [][NextSessions]_vars

CallCreateEarlierScore ==
    \E i \in DOMAIN users, s \in PlayerScores :
        /\ trial.phase = "none"
        /\ next_score_id <= MaxEarlierScores
        /\ create_score(i, s[1], s[2], None)

CallCreateTrialAccount == trial.phase = "none" /\ CallCreateAccounts

TrialStart ==
    \E i, j \in DOMAIN users, s, t \in PlayerScores :
        trial_start([user_id |-> i, score |-> s[1], mode |-> s[2]],
                    [user_id |-> j, score |-> t[1], mode |-> t[2]])

\* two create_score calls for different users, run in both orders from the
\* same state
NextOrders ==
    \/ CallCreateTrialAccount
    \/ CallCreateEarlierScore
    \/ TrialStart
    \/ trial_create_score
    \/ trial_rewind

SpecOrders == Init /\ [][NextOrders]_vars

WaitForDb == \E n \in 0..MaxRetries : wait_for_db(n)

WaitForDbAttempt == \E connected \in BOOLEAN : wait_for_db_attempt(connected)

\* one run of wait_for_db
NextWait == WaitForDb \/ WaitForDbAttempt \/ wait_for_db_gives_up

\* each pass of the loop ends: connect returns or raises, and sleep returns
SpecWait == Init /\ [][NextWait]_vars /\ WF_vars(NextWait)

\* ------------------------------------------------------------------ claims
\* the contents of the list the last get_scores call returned, read in the
\* state the call left behind
returned ==
    IF ret.op = "get_scores"
    THEN [k \in 1..Len(ret.value[1]) |-> scores[ret.value[1][k]]]
    ELSE <<>>

\* the stored scores a get_scores(mode) call selects
matching(mode) == {i \in DOMAIN scores : mode = None \/ scores[i].mode = mode[1]}

\* C1: the sequence returned by get_scores is non-increasing by score, for
\* every store state, limit and mode.
C1_NonIncreasing ==
    ret.op = "get_scores" =>
        \A k \in 1..(Len(returned) - 1) : returned[k].score >= returned[k + 1].score

\* a result of two entries in which the later created score comes first
C1_Witness ==
    /\ ret.op = "get_scores"
    /\ Len(returned) >= 2
    /\ returned[1].score > returned[2].score
    /\ returned[1].id > returned[2].id

\* C2: the i-th entry of every get_scores result has rank i.
C2_DenseRank ==
    ret.op = "get_scores" =>
        \A k \in 1..Len(returned) : returned[k].rank = Some(k)

\* an unfiltered result of two entries of different modes in which the score
\* created last is ranked first
C2_Witness ==
    /\ ret.op = "get_scores"
    /\ ret.args[2] = None
    /\ Len(returned) = 2
    /\ returned[1].mode # returned[2].mode
    /\ returned[1].id = 2
    /\ returned[2].rank = Some(2)

\* C3: get_scores(mode=m) returns only entries whose mode is m.
C3_ModeFilter ==
    (ret.op = "get_scores" /\ ret.args[2] # None) =>
        \A k \in 1..Len(returned) : returned[k].mode = ret.args[2][1]

\* a non-empty filtered result that leaves out a stored score of the other mode
C3_Witness ==
    /\ ret.op = "get_scores"
    /\ ret.args[2] # None
    /\ Len(returned) >= 1
    /\ \E i \in DOMAIN scores :
           /\ scores[i].mode # ret.args[2][1]
           /\ \A k \in 1..Len(returned) : returned[k].id # i

\* C4: get_scores(limit=k), k >= 0, returns at most k entries, and no entry
\* of the filtered set that it leaves out scores strictly higher than one it
\* returns.
C4_AtMostLimitHighest ==
    (ret.op = "get_scores" /\ ret.args[1] # None) =>
        /\ Len(returned) <= ret.args[1][1]
        /\ \A i \in matching(ret.args[2]) :
               (\A k \in 1..Len(returned) : returned[k].id # i) =>
                   \A k \in 1..Len(returned) : scores[i].score <= returned[k].score

\* the full ranked list get_scores(mode) returns without a limit, as contents
unlimited(mode) ==
    LET refs == get_scores_refs(None, mode)
        after == ranked_store(mode)
    IN [k \in 1..Len(refs) |-> after[refs[k]]]

\* C5: get_scores(limit=k, mode=m) is the first k entries of get_scores(mode=m),
\* rank field included.
C5_LimitIsPrefix ==
    (ret.op = "get_scores" /\ ret.args[1] # None) =>
        LET full == unlimited(ret.args[2])
        IN returned = SubSeq(full, 1, Min(ret.args[1][1], Len(full)))

\* C6: create_score for a user id that resolves to no user raises the
\* not-found error and adds no score record.
C6_MissingUserRejected ==
    [][(ret'.op = "create_score" /\ user_missing(ret'.args[1])) =>
           (ret'.raised = Some("ValueError") /\ scores' = scores)]_vars

\* a rejected create_score call made after scores had been stored
C6_Witness ==
    /\ ret.op = "create_score"
    /\ ret.raised = Some("ValueError")
    /\ user_missing(ret.args[1])
    /\ DOMAIN scores # {}

\* C7: create_user with a username or an email already used by an earlier
\* create_user fails with a conflict error and creates no second user record.
C7_DuplicateUserRejected ==
    [][(/\ ret'.op = "create_user"
        /\ (username_exists(ret'.args[1]) \/ email_exists(ret'.args[2]))) =>
           (ret'.raised # None /\ users' = users)]_vars

\* C8: whatever the interleaving of concurrent signup requests, the store never
\* holds two users with the same username or the same email, and at most one
\* request per username and per email is answered with success.
C8_NoDuplicateSignup ==
    /\ \A i, j \in DOMAIN users :
           i # j => /\ users[i].username # users[j].username
                    /\ users[i].email # users[j].email
    /\ \A r, q \in Requests :
           (/\ r # q
            /\ requests[r].response # None
            /\ requests[q].response # None
            /\ requests[r].response[1].status_code = 201
            /\ requests[q].response[1].status_code = 201) =>
               /\ requests[r].body[1].username # requests[q].body[1].username
               /\ requests[r].body[1].email # requests[q].body[1].email

\* two answered requests for one username with different emails: one got 201,
\* the other 409
C8_Witness ==
    \E r, q \in Requests :
        /\ r # q
        /\ requests[r].body # None
        /\ requests[q].body # None
        /\ requests[r].body[1].username = requests[q].body[1].username
        /\ requests[r].body[1].email # requests[q].body[1].email
        /\ requests[r].response # None
        /\ requests[q].response # None
        /\ requests[r].response[1].status_code = 201
        /\ requests[q].response[1].status_code = 409

\* the user with the smallest id among those registered with an email
first_registered(email) ==
    CHOOSE u \in {users[i] : i \in DOMAIN users} :
        /\ u.email = email
        /\ \A i \in DOMAIN users : users[i].email = email => u.id <= i

\* C9: a signup whose email or username is already registered is answered
\* with 409, creates no user and leaves the store as it was; the lookup by
\* that email still yields the first user registered with it.
C9_DuplicateSignup409 ==
    [][\A r \in Requests :
          (/\ requests[r].response = None
           /\ requests'[r].response # None
           /\ (\/ email_exists(requests[r].body[1].email)
               \/ username_exists(requests[r].body[1].username))) =>
              /\ requests'[r].response[1].status_code = 409
              /\ requests'[r].response[1].user = None
              /\ store' = store
              /\ email_exists(requests[r].body[1].email) =>
                    (get_user_by_email(requests[r].body[1].email))' =
                        Some(first_registered(requests[r].body[1].email))]_vars

\* a signup answered 409 for its email by a store that holds the first user
C9_Witness ==
    \E r \in Requests :
        /\ requests[r].response # None
        /\ requests[r].response[1].status_code = 409
        /\ requests[r].response[1].detail = "Email already exists"
        /\ get_user_by_email(requests[r].body[1].email) # None
        /\ get_user_by_email(requests[r].body[1].email)[1].username
               # requests[r].body[1].username

\* C10: get_scores leaves the stored score records as they were; no stored
\* record carries a rank.
C10_RankNotPersisted ==
    [][ret'.op = "get_scores" =>
           (scores' = scores /\ \A i \in DOMAIN scores' : scores'[i].rank = None)]_vars

\* the fields of a score record that are set at creation
created_fields(s) ==
    <<s.id, s.userId, s.username, s.score, s.mode, s.timestamp>>

submitted_fields(e) == <<e.userId, e.score, e.mode, e.username>>

\* C12: after a successful create_score(userId, score, mode) returning id,
\* getScoreById(id) gives an entry with the submitted score, mode and userId
\* and the owning user's username, and keeps giving it; an id that no
\* create_score call returned is not found.
C12_RoundTrip ==
    [][/\ (ret'.op = "create_score" /\ ret'.raised = None) =>
              \E i \in ScoreIds :
                  /\ ret'.value = Some(i)
                  /\ (get_score_by_id(i))' # None
                  /\ submitted_fields((get_score_by_id(i))'[1]) =
                         <<ret'.args[1], ret'.args[2], ret'.args[3],
                           users[ret'.args[1]].username>>
       /\ \A i \in ScoreIds :
              /\ get_score_by_id(i) # None =>
                     /\ (get_score_by_id(i))' # None
                     /\ submitted_fields((get_score_by_id(i))'[1]) =
                            submitted_fields(get_score_by_id(i)[1])
              /\ (get_score_by_id(i) = None /\ (get_score_by_id(i))' # None) =>
                     /\ ret'.op = "create_score"
                     /\ ret'.value = Some(i)]_vars

\* a lookup of the second score after a leaderboard read has ranked it, in a
\* store where an id was used up by a rejected call
C12_Witness ==
    /\ ret.op = "get_score_by_id"
    /\ ret.value # None
    /\ ret.value[1].score = 1
    /\ scores[ret.args[1]].rank # None
    /\ get_score_by_id(1) = None
    /\ next_score_id > 2

\* C13: get_user_scores(u) returns exactly the stored scores of user u, the
\* most recently created first.
C13_UserScoresNewestFirst ==
    ret.op = "get_user_scores" =>
        LET ids == ret.value[1]
        IN /\ {ids[k] : k \in 1..Len(ids)} =
                  {i \in DOMAIN scores : scores[i].userId = ret.args[1]}
           /\ Len(ids) = Cardinality({ids[k] : k \in 1..Len(ids)})
           /\ \A j, k \in 1..Len(ids) :
                  j < k => scores[ids[j]].timestamp >= scores[ids[k]].timestamp

\* no two stored records of one kind carry the same id
ids_distinct ==
    /\ \A i, j \in DOMAIN users : users[i].id = users[j].id => i = j
    /\ \A i, j \in DOMAIN scores : scores[i].id = scores[j].id => i = j

\* C14: user ids are pairwise distinct and score ids are pairwise distinct,
\* and a record created by a call has an id strictly greater than the id of
\* every record of its kind created before.
C14_IdsDistinctMonotonic ==
    [][/\ ids_distinct'
       /\ ret'.op = "create_user" =>
              /\ \A i \in DOMAIN users : users[i].id < ret'.value[1]
              /\ DictGet(users', ret'.value[1]) # None
              /\ users'[ret'.value[1]].id = ret'.value[1]
       /\ (ret'.op = "create_score" /\ ret'.raised = None) =>
              /\ \A i \in DOMAIN scores : scores[i].id < ret'.value[1]
              /\ DictGet(scores', ret'.value[1]) # None
              /\ scores'[ret'.value[1]].id = ret'.value[1]]_vars

\* two users, and a second score just created for the other user than the first
C14_Witness ==
    /\ Cardinality(DOMAIN users) = 2
    /\ DOMAIN scores = {1, 2}
    /\ scores[1].userId # scores[2].userId
    /\ ret.op = "create_score"
    /\ ret.value = Some(2)

\* request r is answered in this step
answered(r) == requests[r].pc = "submit_score" /\ requests'[r].pc = "done"

\* the body of request r is one that validation has to refuse
refused_body(r) ==
    requests[r].body[1].score < 0 \/ requests[r].body[1].mode \notin GameMode

\* C15 as stated: a score submission with a negative score or an unrecognized
\* mode is answered with 422 and leaves the store unchanged.
C15_Invalid422 ==
    [][\A r \in Requests :
           (answered(r) /\ refused_body(r)) =>
               /\ requests'[r].response[1].status_code = 422
               /\ store' = store]_vars

\* C15 amended: a score submission with a negative score or an unrecognized
\* mode leaves the store unchanged, and is answered with 422 when it carries
\* a valid token.
C15_Invalid422WithToken ==
    [][\A r \in Requests :
           (answered(r) /\ refused_body(r)) =>
               /\ store' = store
               /\ requests[r].body[1].token # None =>
                      requests'[r].response[1].status_code = 422]_vars

\* a negative score sent with a token was refused although scores exist
C15_Witness ==
    \E r \in Requests :
        /\ requests[r].pc = "done"
        /\ requests[r].body[1].token # None
        /\ requests[r].body[1].score < 0
        /\ requests[r].body[1].mode \in GameMode
        /\ requests[r].response[1].status_code = 422
        /\ scores # <<>>

\* C16: a score submission without a token is answered with 403 and the
\* stored scores are the same after it as before.
C16_NoToken403 ==
    [][\A r \in Requests :
           (answered(r) /\ requests[r].body[1].token = None) =>
               /\ requests'[r].response[1].status_code = 403
               /\ scores' = scores
               /\ next_score_id' = next_score_id]_vars

\* a valid body sent without a token was refused, with users and a score there
C16_Witness ==
    \E r \in Requests :
        /\ requests[r].pc = "done"
        /\ requests[r].body[1].token = None
        /\ requests[r].body[1].score = 1
        /\ requests[r].body[1].mode = "pass"
        /\ requests[r].response[1].status_code = 403
        /\ users # <<>>
        /\ Cardinality(DOMAIN scores) = 1

\* C17: a valid submission with a token succeeds; a successful submission
\* adds exactly one score record, and both the record and the response carry
\* the submitted score and mode and the id and username of the token's user.
C17_SubmitCreatesOne ==
    [][\A r \in Requests :
           answered(r) =>
               LET req == requests[r].body[1]
                   rsp == requests'[r].response[1]
               IN /\ (req.token # None /\ ~refused_body(r)) => rsp.status_code = 201
                  /\ rsp.status_code = 201 =>
                         /\ req.token # None
                         /\ \E i \in DOMAIN scores' \ DOMAIN scores :
                                /\ DOMAIN scores' = DOMAIN scores \cup {i}
                                /\ rsp.score[1].id = i
                                /\ submitted_fields(scores'[i]) =
                                       submitted_fields(rsp.score[1])
                         /\ \A i \in DOMAIN scores : scores'[i] = scores[i]
                         /\ submitted_fields(rsp.score[1]) =
                                <<req.token[1].sub, req.score, req.mode,
                                  users[req.token[1].sub].username>>]_vars

\* the second registered user has just submitted the first score
C17_Witness ==
    \E r \in Requests :
        /\ requests[r].pc = "done"
        /\ requests[r].response[1].status_code = 201
        /\ requests[r].response[1].score[1].userId = 2
        /\ requests[r].response[1].score[1].id = 1
        /\ Cardinality(DOMAIN users) = 2
        /\ users[1].username # users[2].username

\* C18: when the limit does not truncate (no limit, or a limit of at least
\* the number of matching scores), get_scores returns every stored score of
\* the requested mode (every stored score if no mode is given) exactly once,
\* each with the username of its owning user.
C18_Complete ==
    (/\ ret.op = "get_scores"
     /\ \/ ret.args[1] = None
        \/ ret.args[1][1] >= Cardinality(matching(ret.args[2]))) =>
        /\ {returned[k].id : k \in 1..Len(returned)} = matching(ret.args[2])
        /\ Len(returned) = Cardinality(matching(ret.args[2]))
        /\ \A k \in 1..Len(returned) :
               returned[k].username = users[returned[k].userId].username

\* a filtered read whose limit equals the number of matching scores, with a
\* score of the other mode in the store
C18_Witness ==
    /\ ret.op = "get_scores"
    /\ ret.args[2] # None
    /\ ret.args[1] = Some(1)
    /\ Cardinality(matching(ret.args[2])) = 1
    /\ Len(returned) = 1
    /\ Cardinality(DOMAIN scores) = 2

\* request q is a signup that registered a user under this email
signed_up(q, email) ==
    /\ requests[q].pc = "done"
    /\ "username" \in DOMAIN requests[q].body[1]
    /\ requests[q].body[1].email = email
    /\ requests[q].response[1].status_code = 201

\* C19: a login with a registered user's email and a password other than the
\* one given at signup is answered with 401 and no token; with the signup
\* password it succeeds.
C19_WrongPassword401 ==
    [][\A r, q \in Requests :
           (/\ requests[r].pc = "login"
            /\ requests'[r].pc = "done"
            /\ signed_up(q, requests[r].body[1].email)) =>
               LET rsp == requests'[r].response[1]
               IN IF requests[r].body[1].password = requests[q].body[1].password
                  THEN rsp.status_code = 200 /\ rsp.token # None
                  ELSE rsp.status_code = 401 /\ rsp.token = None]_vars

\* C20: the active-players endpoint returns an empty list when no scores
\* exist, and otherwise at most 3 players, one for each entry of
\* get_scores(limit=3) in its order, carrying that entry's userId, username,
\* score and mode.
C20_ActivePlayers ==
    ret.op = "get_active_players" =>
        LET players == ret.value[1]
            top == get_scores_refs(Some(3), None)
        IN /\ scores = <<>> => players = <<>>
           /\ Len(players) <= 3
           /\ Len(players) = Len(top)
           /\ \A k \in 1..Len(players) :
                  /\ players[k].id = scores[top[k]].userId
                  /\ players[k].username = users[scores[top[k]].userId].username
                  /\ players[k].score = scores[top[k]].score
                  /\ players[k].mode = scores[top[k]].mode

\* three players returned out of four stored scores, the lowest left out
C20_Witness ==
    /\ ret.op = "get_active_players"
    /\ Len(ret.value[1]) = 3
    /\ Cardinality(DOMAIN scores) = 4
    /\ ret.value[1][3].score = 1
    /\ \E i \in DOMAIN scores : scores[i].score = 0

\* what the last call on the in-memory backend gave back, in the shape the
\* relational backend's outcome is kept in
mock_outcome ==
    IF ret.op = "get_scores"
    THEN [raised |-> FALSE,
          value |-> Some([k \in 1..Len(returned) |->
              <<returned[k].id, returned[k].userId, returned[k].username,
                returned[k].score, returned[k].mode, returned[k].timestamp,
                returned[k].rank[1]>>])]
    ELSE [raised |-> ret.raised # None, value |-> ret.value]

\* no two scores stored in the in-memory backend are equal
scores_distinct ==
    \A i, j \in DOMAIN scores : scores[i].score = scores[j].score => i = j

\* C21: given the same sequence of createUser, createScore and getScores
\* calls, the in-memory backend and the relational backend give the same
\* result or both fail, for every call made while all scores are distinct.
C21_BackendParity ==
    (ret.op \in {"create_user", "create_score", "get_scores"} /\ scores_distinct) =>
        sql.ret = mock_outcome

\* C22: among the entries of a get_scores result that have the same score,
\* the one created earlier (smaller id) comes before the one created later and
\* has the smaller rank.
C22_TiesInInsertionOrder ==
    ret.op = "get_scores" =>
        \A j, k \in 1..Len(returned) :
            (returned[j].score = returned[k].score /\ returned[j].id < returned[k].id) =>
                /\ j < k
                /\ returned[j].rank[1] < returned[k].rank[1]

\* a result with two entries of equal score
C22_Witness ==
    /\ ret.op = "get_scores"
    /\ Len(returned) = 2
    /\ returned[1].score = returned[2].score
    /\ returned[1].mode # returned[2].mode

\* the operation of worker w is under way
under_way(w) == operations[w].pc \in {"using", "ended", "ended_raising"}

\* C23: a session acquired through get_db is closed once the operation that
\* uses it has returned or raised; the only open sessions are those of
\* operations still under way.
C23_SessionsClosed ==
    /\ \A w \in Workers :
           operations[w].pc \in {"returned", "raised"} =>
               sessions[operations[w].db] = "closed"
    /\ \A s \in DOMAIN sessions :
           sessions[s] = "open" =>
               \E w \in Workers : under_way(w) /\ operations[w].db = s

\* one operation has raised and left its session closed while another is
\* still using its own
C23_Witness ==
    \E v, w \in Workers :
        /\ operations[v].pc = "raised"
        /\ sessions[operations[v].db] = "closed"
        /\ operations[w].pc = "using"
        /\ sessions[operations[w].db] = "open"

\* C24: every stored score's userId is the id of a stored user, and the
\* username in the score entry is that user's username.
C24_ScoresReferToUsers ==
    \A i \in DOMAIN scores :
        /\ scores[i].userId \in DOMAIN users
        /\ scores[i].username = users[scores[i].userId].username

\* a score of the second of two differently named users, stored after a call
\* for a missing user was rejected
C24_Witness ==
    /\ ret.op = "create_score"
    /\ DOMAIN scores = {2}
    /\ scores[2].userId = 2
    /\ Cardinality(DOMAIN users) = 2
    /\ users[1].username # users[2].username

\* both orders of the pair of calls have been run
both_orders_done == trial.phase = "second" /\ trial.done = 2

\* C25: two create_score calls for different users, run in either order from
\* the same state, add the same two records (userId, username, score, mode);
\* and when their scores differ, get_scores returns the same sequence of
\* (userId, score, mode, rank) after either order, for every limit and mode.
C25_OrderIndependent ==
    both_orders_done =>
        /\ trial_outcome.records = trial.first[1].records
        /\ trial_outcome.added = 2
        /\ trial.first[1].added = 2
        /\ trial.calls[1].score # trial.calls[2].score =>
               trial_outcome.board = trial.first[1].board

\* both orders run for two calls with different scores, the lower one equal
\* to a score stored before
C25_Witness ==
    /\ both_orders_done
    /\ trial.calls[1].score < trial.calls[2].score
    /\ \E i \in DOMAIN trial.base.scores :
           trial.base.scores[i].score = trial.calls[1].score
    /\ Len(trial_outcome.board[None, None]) = 3

\* C26: a create_score call that fails because the user does not exist
\* leaves the whole store as it was, the next score id included.
C26_FailedCreateChangesNothing ==
    [][(ret'.op = "create_score" /\ ret'.raised # None) => store' = store]_vars

\* C27: for every stored user u, get_user_by_email(u.email) and
\* get_user_by_username(u.username) return u, and email_exists and
\* username_exists hold exactly for the emails and usernames of stored users.
C27_IndexesConsistent ==
    /\ \A i \in DOMAIN users :
           /\ get_user_by_email(users[i].email) = Some(users[i])
           /\ get_user_by_username(users[i].username) = Some(users[i])
    /\ \A e \in Emails :
           email_exists(e) <=> \E i \in DOMAIN users : users[i].email = e
    /\ \A u \in Usernames :
           username_exists(u) <=> \E i \in DOMAIN users : users[i].username = u

\* C28: the entries of a result that get_scores has returned keep their
\* ranks and fields whatever call comes next, a get_scores call with another
\* mode or limit or a create_score call.
C28_ResultIsSnapshot ==
    [][ret.op = "get_scores" =>
           \A k \in 1..Len(ret.value[1]) :
               scores'[ret.value[1][k]] = scores[ret.value[1][k]]]_vars

\* the attempts made so far were all failures, except perhaps the last
only_last_connected ==
    \A k \in 1..(Len(wait.attempts) - 1) : ~wait.attempts[k]

\* C29: wait_for_db makes at most max_retries connection attempts and none
\* after a successful one; it returns True exactly when its last attempt
\* succeeded and False exactly when all max_retries attempts failed; and once
\* called it always returns.
C29_WaitTerminates ==
    /\ [](/\ Len(wait.attempts) <= wait.max_retries
          /\ only_last_connected
          /\ wait.result = Some(TRUE) <=>
                 (wait.pc = "done" /\ wait.attempts # <<>>
                    /\ wait.attempts[Len(wait.attempts)])
          /\ wait.result = Some(FALSE) <=>
                 (/\ wait.pc = "done"
                  /\ Len(wait.attempts) = wait.max_retries
                  /\ \A k \in 1..Len(wait.attempts) : ~wait.attempts[k])
          /\ wait.pc = "done" => wait.result # None)
    /\ (wait.pc = "loop") ~> (wait.pc = "done")

\* True returned at the third attempt out of five allowed
C29_Witness ==
    /\ wait.pc = "done"
    /\ wait.max_retries = 5
    /\ wait.attempts = <<FALSE, FALSE, TRUE>>
    /\ wait.result = Some(TRUE)

\* a login with this email and password is refused for the password
wrong_password(email, password) ==
    /\ get_user_by_email(email) # None
    /\ ~verify_password(password, get_user_by_email(email)[1].password_hash)

\* C30: a login with an unregistered email and a login with a registered
\* email and a wrong password get the same response, with status 401, and a
\* login leaves the store as it was.
C30_LoginDoesNotTell ==
    /\ [](\A e1, e2 \in Emails, p1, p2 \in LoginPasswords :
              (get_user_by_email(e1) = None /\ wrong_password(e2, p2)) =>
                  /\ login_response(e1, p1) = login_response(e2, p2)
                  /\ login_response(e1, p1).status_code = 401)
    /\ [][\A r \in Requests :
              (requests[r].pc = "login" /\ requests'[r].pc = "done") =>
                  store' = store]_vars

\* a login refused for its password while the other email is unregistered
C30_Witness ==
    \E r \in Requests :
        /\ requests[r].pc = "done"
        /\ "username" \notin DOMAIN requests[r].body[1]
        /\ wrong_password(requests[r].body[1].email, requests[r].body[1].password)
        /\ requests[r].response[1].status_code = 401
        /\ \E e \in Emails : get_user_by_email(e) = None

====
